---- MODULE Spec2Model ----
(***************************************************************************)
(* Model of Challenge15_Completed_Lambda_Function.py: the Lex dialog       *)
(* handler of the "recommendPortfolio" intent.                             *)
(*                                                                         *)
(* Representation of Python values:                                        *)
(*   - a str is a sequence of text atoms; the strings whose characters the *)
(*     code inspects (slot values) are written one character per atom, the *)
(*     fixed texts the code only copies are one atom;                      *)
(*   - a value that is "a str or None" is a record [isNone, str];          *)
(*   - the result of parse_int is a record [nan, val]: float("nan") is     *)
(*     nan = TRUE, and every ordering comparison with it is False;         *)
(*   - a raised exception is a record [raised, args] in place of the       *)
(*     response.                                                           *)
(***************************************************************************)
EXTENDS Integers, Sequences, FiniteSets

VARIABLES
    intent_request,     \* the event handed to lambda_handler (slots mutated in place)
    response,           \* what lambda_handler returned or raised
    validation_result,  \* recommend_portfolio's local: the verdict, if validate_data ran
    slots_before,       \* history: the request's slot mapping when the call started
    elicited,           \* history: the slots elicited so far in this conversation
    turns,              \* history: elicit responses the host has fed back
    pc                  \* "idle": no event yet; "request": an event is pending;
                        \* "responded": the call ended

vars == <<intent_request, response, validation_result, slots_before, elicited, turns, pc>>

\* The host stops feeding elicit responses back after this many turns.
MaxTurns == 5

-----------------------------------------------------------------------------
(* Python values *)

None == [isNone |-> TRUE, str |-> <<>>]

Str(s) == [isNone |-> FALSE, str |-> s]

\* None in a position that otherwise holds a slot name (a key of slots).
NoSlot == "None"

SlotNames == {"firstName", "age", "investmentAmount", "riskLevel"}

NaN == [nan |-> TRUE, val |-> 0]

Num(v) == [nan |-> FALSE, val |-> v]

\* x <= k, x >= k, x < k on a parse_int result: False when x is nan.
NumLe(x, k) == ~x.nan /\ x.val <= k

NumGe(x, k) == ~x.nan /\ x.val >= k

NumLt(x, k) == ~x.nan /\ x.val < k

-----------------------------------------------------------------------------
(* str.lower, int(str) *)

UpperChars == <<"A","B","C","D","E","F","G","H","I","J","K","L","M",
                "N","O","P","Q","R","S","T","U","V","W","X","Y","Z">>

LowerChars == <<"a","b","c","d","e","f","g","h","i","j","k","l","m",
                "n","o","p","q","r","s","t","u","v","w","x","y","z">>

LowerChar(c) ==
    IF \E i \in 1..26 : UpperChars[i] = c
    THEN LowerChars[CHOOSE i \in 1..26 : UpperChars[i] = c]
    ELSE c

lower(s) == [i \in 1..Len(s) |-> LowerChar(s[i])]

DigitChars == <<"0","1","2","3","4","5","6","7","8","9">>

IsDigit(c) == \E i \in 1..10 : DigitChars[i] = c

DigitVal(c) == (CHOOSE i \in 1..10 : DigitChars[i] = c) - 1

IsSpace(c) == c \in {" ", "\t", "\n"}

\* str.strip(): int() ignores leading and trailing whitespace.
strip(s) ==
    LET keep == {i \in 1..Len(s) : ~IsSpace(s[i])}
    IN  IF keep = {} THEN <<>>
        ELSE LET lo == CHOOSE i \in keep : \A j \in keep : i <= j
                 hi == CHOOSE i \in keep : \A j \in keep : i >= j
             IN  SubSeq(s, lo, hi)

HasSign(t) == t # <<>> /\ t[1] \in {"+", "-"}

Unsigned(t) == IF HasSign(t) THEN Tail(t) ELSE t

\* The decimal literals int() accepts: [sign] digit (["_"] digit)*
IsIntLiteral(t) ==
    LET b == Unsigned(t)
    IN  /\ b # <<>>
        /\ \A i \in 1..Len(b) : IsDigit(b[i]) \/ b[i] = "_"
        /\ IsDigit(b[1])
        /\ IsDigit(b[Len(b)])
        /\ \A i \in 1..(Len(b) - 1) : ~(b[i] = "_" /\ b[i + 1] = "_")

\* The value of a digit string, underscores skipped, most significant digit first.
DecimalValue(b) ==
    LET acc[i \in 0..Len(b)] ==
            IF i = 0 THEN 0
            ELSE IF b[i] = "_" THEN acc[i - 1]
            ELSE 10 * acc[i - 1] + DigitVal(b[i])
    IN  acc[Len(b)]

\* int(n) for a str n; ValueError is caught and float("nan") returned.
parse_int(n) ==
    LET t == strip(n)
    IN  IF IsIntLiteral(t)
        THEN Num((IF t[1] = "-" THEN -1 ELSE 1) * DecimalValue(Unsigned(t)))
        ELSE NaN

-----------------------------------------------------------------------------
(* Functionality helper functions *)

AgeMessage ==
    <<"Your age should be greater than zero and less than 65. Please provide a valid age.">>

AmountMessage ==
    <<"The minimum investment amount is $5000. Please provide a valid investment amount.">>

RiskMessage ==
    <<"Your risk level should be one of the following options: none, low, medium, high. Please provide a valid risk level.">>

build_validation_result(is_valid, violated_slot, message_content) ==
    IF message_content.isNone
    THEN [isValid |-> is_valid, violatedSlot |-> violated_slot]
    ELSE [isValid |-> is_valid,
          violatedSlot |-> violated_slot,
          message |-> [contentType |-> "PlainText", content |-> message_content.str]]

AgeLimit == 65

MinInvestment == 5000

risk_levels == { <<"n","o","n","e">>, <<"l","o","w">>,
                 <<"m","e","d","i","u","m">>, <<"h","i","g","h">> }

\* Mutant of AgeOutOfRange: age < 0 in place of age <= 0.
AgeOutOfRangeOffByOne(age) == NumLt(age, 0) \/ NumGe(age, AgeLimit)

\* age <= 0 or age >= 65, on the parsed age
AgeOutOfRange(age) == NumLe(age, 0) \/ NumGe(age, AgeLimit)

\* investment_amount < 5000, on the parsed amount
AmountTooLow(investment_amount) == NumLt(investment_amount, MinInvestment)

\* risk_level.lower() not in risk_levels
RiskLevelUnknown(risk_level) == lower(risk_level) \notin risk_levels

validate_data(age, investment_amount, risk_level) ==
    IF ~age.isNone /\ AgeOutOfRange(parse_int(age.str))
    THEN build_validation_result(FALSE, "age", Str(AgeMessage))
    ELSE IF ~investment_amount.isNone /\ AmountTooLow(parse_int(investment_amount.str))
    THEN build_validation_result(FALSE, "investmentAmount", Str(AmountMessage))
    ELSE IF ~risk_level.isNone /\ RiskLevelUnknown(risk_level.str)
    THEN build_validation_result(FALSE, "riskLevel", Str(RiskMessage))
    ELSE build_validation_result(TRUE, NoSlot, None)

\* An exception in place of a value.
Raise(kind, args) == [raised |-> kind, args |-> args]

IsRaise(v) == "raised" \in DOMAIN v

\* risk_level.lower() raises AttributeError when risk_level is None.
get_rec(risk_level) ==
    IF risk_level.isNone
    THEN Raise("AttributeError", <<"'NoneType' object has no attribute 'lower'">>)
    ELSE IF lower(risk_level.str) = <<"n","o","n","e">>
    THEN Str(<<"100% bonds (AGG), 0% equities (SPY)">>)
    ELSE IF lower(risk_level.str) = <<"l","o","w">>
    THEN Str(<<"60% bonds (AGG), 40% equities (SPY)">>)
    ELSE IF lower(risk_level.str) = <<"m","e","d","i","u","m">>
    THEN Str(<<"40% bonds (AGG), 60% equities (SPY)">>)
    ELSE IF lower(risk_level.str) = <<"h","i","g","h">>
    THEN Str(<<"20% bonds (AGG), 80% equities (SPY)">>)
    ELSE Str(<<"Invalid Risk Level">>)

-----------------------------------------------------------------------------
(* Dialog actions helper functions *)

get_slots(request) == request.currentIntent.slots

elicit_slot(session_attributes, intent_name, slots, slot_to_elicit, message) ==
    [sessionAttributes |-> session_attributes,
     dialogAction |-> [type |-> "ElicitSlot",
                       intentName |-> intent_name,
                       slots |-> slots,
                       slotToElicit |-> slot_to_elicit,
                       message |-> message]]

\* Mutant of delegate: the session attributes are replaced by fresh ones.
delegateFreshSession(session_attributes, slots) ==
    [sessionAttributes |-> [token |-> ""],
     dialogAction |-> [type |-> "Delegate", slots |-> slots]]

delegate(session_attributes, slots) ==
    [sessionAttributes |-> session_attributes,
     dialogAction |-> [type |-> "Delegate", slots |-> slots]]

close(session_attributes, fulfillment_state, message) ==
    [sessionAttributes |-> session_attributes,
     dialogAction |-> [type |-> "Close",
                       fulfillmentState |-> fulfillment_state,
                       message |-> message]]

-----------------------------------------------------------------------------
(* Intent handler and dispatcher.  Each returns what the call leaves behind:  *)
(* the response (or the exception), the request's slot mapping after the      *)
(* call, and the verdict if the validator ran.                                *)

NoVerdict == [notRun |-> TRUE]

Outcome(resp, slots, verdict) ==
    [response |-> resp, slots |-> slots, validation_result |-> verdict]

\* Mutant of ClearSlot: every validated slot is cleared with the violated one.
ClearSlotAll(slots, violated_slot) ==
    [k \in DOMAIN slots |-> IF k = "firstName" THEN slots[k] ELSE None]

\* Mutant of ClearSlot: the violated slot keeps its value.
ClearSlotNever(slots, violated_slot) == slots

\* slots[violated_slot] = None
ClearSlot(slots, violated_slot) == [slots EXCEPT ![violated_slot] = None]

\* "{}".format(v)
Format(v) == IF v.isNone THEN <<"N","o","n","e">> ELSE v.str

ThankYou(first_name, portfolio_recommendation) ==
    <<"Thank you, ">> \o Format(first_name)
        \o <<", you should allocate your funds like so: ">>
        \o Format(portfolio_recommendation)

\* Mutant of IsDialogCodeHook: every phase is validated.
IsDialogCodeHookAlways(source) == TRUE

\* source == "DialogCodeHook"
IsDialogCodeHook(source) == source = "DialogCodeHook"

recommend_portfolio(request) ==
    LET first_name == get_slots(request)["firstName"]
        age == get_slots(request)["age"]
        investment_amount == get_slots(request)["investmentAmount"]
        risk_level == get_slots(request)["riskLevel"]
        source == request.invocationSource
    IN  IF IsDialogCodeHook(source)
        THEN LET slots == get_slots(request)
                 verdict == validate_data(age, investment_amount, risk_level)
             IN  IF ~verdict.isValid
                 THEN LET cleared == ClearSlot(slots, verdict.violatedSlot)
                      IN  Outcome(elicit_slot(request.sessionAttributes,
                                              request.currentIntent.name,
                                              cleared,
                                              verdict.violatedSlot,
                                              verdict.message),
                                  cleared, verdict)
                 ELSE Outcome(delegate(request.sessionAttributes, slots), slots, verdict)
        ELSE LET portfolio_recommendation == get_rec(risk_level)
             IN  IF IsRaise(portfolio_recommendation)
                 THEN Outcome(portfolio_recommendation, get_slots(request), NoVerdict)
                 ELSE Outcome(close(request.sessionAttributes,
                                    "Fulfilled",
                                    [contentType |-> "PlainText",
                                     content |-> ThankYou(first_name, portfolio_recommendation)]),
                              get_slots(request), NoVerdict)

SupportedIntent == "recommendPortfolio"

\* Mutant of IsSupported: every intent is handled.
IsSupportedAny(intent_name) == TRUE

\* intent_name == "recommendPortfolio"
IsSupported(intent_name) == intent_name = SupportedIntent

dispatch(request) ==
    LET intent_name == request.currentIntent.name
    IN  IF IsSupported(intent_name)
        THEN recommend_portfolio(request)
        ELSE Outcome(Raise("Exception", <<"Intent with name ", intent_name, " not supported">>),
                     get_slots(request), NoVerdict)

lambda_handler(event) == dispatch(event)

-----------------------------------------------------------------------------
(* The events the host can send: each slot is a str or None. *)

FirstNames == { None, Str(<<"J","o">>), Str(<<>>) }

Ages == { None,
          Str(<<"0">>), Str(<<"1">>), Str(<<"6","4">>), Str(<<"6","5">>),
          Str(<<"-","5">>), Str(<<" ","3","0">>),
          Str(<<"a","b","c">>), Str(<<"1","2",".","5">>), Str(<<>>) }

Amounts == { None,
             Str(<<"4","9","9","9">>), Str(<<"5","0","0","0">>), Str(<<"1","0","0">>),
             Str(<<"5","_","0","0","0">>), Str(<<"-","6","0","0","0">>),
             Str(<<"l","o","t","s">>), Str(<<"5","e","3">>) }

RiskLevels == { None,
                Str(<<"n","o","n","e">>), Str(<<"l","o","w">>),
                Str(<<"m","e","d","i","u","m">>), Str(<<"H","i","g","h">>),
                Str(<<"L","O","W">>), Str(<<"e","x","t","r","e","m","e">>),
                Str(<<"l","o">>), Str(<<>>) }

IntentNames == { "recommendPortfolio", "other" }

InvocationSources == { "DialogCodeHook", "FulfillmentCodeHook" }

SessionAttributes == { [token |-> "s1"], [token |-> "s2"] }

SlotMappings ==
    { [firstName |-> f, age |-> a, investmentAmount |-> i, riskLevel |-> r] :
        f \in FirstNames, a \in Ages, i \in Amounts, r \in RiskLevels }

Events ==
    { [currentIntent |-> [name |-> n, slots |-> s],
       invocationSource |-> src,
       sessionAttributes |-> sa] :
        n \in IntentNames, s \in SlotMappings,
        src \in InvocationSources, sa \in SessionAttributes }

NoEvent == [pending |-> TRUE]

NoSlots == [pending |-> TRUE]

NoResponse == [pending |-> TRUE]

\* "ElicitSlot", "Delegate" or "Close" for a response, "Raised" for an exception.
Kind(r) ==
    IF "dialogAction" \in DOMAIN r THEN r.dialogAction.type
    ELSE IF IsRaise(r) THEN "Raised"
    ELSE "None"

-----------------------------------------------------------------------------
(* State machine *)

\* Before the first event: the function holds no state of its own.
Init ==
    /\ intent_request = NoEvent
    /\ response = NoResponse
    /\ validation_result = NoVerdict
    /\ slots_before = NoSlots
    /\ elicited = <<>>
    /\ turns = 0
    /\ pc = "idle"

\* The host starts a conversation turn with an event of its choosing.
HostSendsEvent ==
    /\ pc = "idle"
    /\ intent_request' \in Events
    /\ slots_before' = get_slots(intent_request')
    /\ pc' = "request"
    /\ UNCHANGED <<response, validation_result, elicited, turns>>

\* The host calls lambda_handler(event, context) on the pending event.
LambdaHandler ==
    /\ pc = "request"
    /\ \E out \in {lambda_handler(intent_request)} :
           /\ response' = out.response
           /\ validation_result' = out.validation_result
           /\ intent_request' = [intent_request EXCEPT !.currentIntent.slots = out.slots]
           /\ elicited' = IF Kind(out.response) = "ElicitSlot"
                          THEN Append(elicited, out.response.dialogAction.slotToElicit)
                          ELSE elicited
    /\ slots_before' = get_slots(intent_request)
    /\ pc' = "responded"
    /\ UNCHANGED turns

\* The host sends the slots of an elicit response back, unchanged, as the
\* slots of the next DialogCodeHook event of the conversation.
FeedBack ==
    /\ pc = "responded"
    /\ Kind(response) = "ElicitSlot"
    /\ turns < MaxTurns
    /\ intent_request' = [intent_request EXCEPT
                             !.currentIntent.slots = response.dialogAction.slots,
                             !.invocationSource = "DialogCodeHook"]
    /\ slots_before' = response.dialogAction.slots
    /\ response' = NoResponse
    /\ validation_result' = NoVerdict
    /\ turns' = turns + 1
    /\ pc' = "request"
    /\ UNCHANGED elicited

\* After a delegate response with every slot filled, the host sends the
\* FulfillmentCodeHook event with the delegated slots.
Fulfill ==
    /\ pc = "responded"
    /\ Kind(response) = "Delegate"
    /\ \A k \in SlotNames : ~response.dialogAction.slots[k].isNone
    /\ intent_request' = [intent_request EXCEPT
                             !.currentIntent.slots = response.dialogAction.slots,
                             !.invocationSource = "FulfillmentCodeHook"]
    /\ slots_before' = response.dialogAction.slots
    /\ response' = NoResponse
    /\ validation_result' = NoVerdict
    /\ pc' = "request"
    /\ UNCHANGED <<elicited, turns>>

Next == HostSendsEvent \/ LambdaHandler \/ FeedBack \/ Fulfill

Spec == Init /\ [][Next]_vars

\* A pending event is always handled, and the host of the conversation keeps
\* answering: each invocation is synchronous and bounded.
FairSpec == Spec /\ WF_vars(LambdaHandler) /\ WF_vars(FeedBack)

-----------------------------------------------------------------------------
(* Vocabulary of the properties *)

Responded == pc = "responded"

Supported == intent_request.currentIntent.name = "recommendPortfolio"

Intermediate == intent_request.invocationSource = "DialogCodeHook"

Final == intent_request.invocationSource = "FulfillmentCodeHook"

\* The verdict of an intermediate-phase call is at hand.
Validated == Responded /\ Supported /\ Intermediate

\* The decimal strings among the inputs, with the integers they denote.
IntegerStrings ==
    { <<Str(<<"0">>), 0>>, <<Str(<<"1">>), 1>>, <<Str(<<"6","4">>), 64>>,
      <<Str(<<"6","5">>), 65>>, <<Str(<<"-","5">>), -5>>, <<Str(<<" ","3","0">>), 30>>,
      <<Str(<<"4","9","9","9">>), 4999>>, <<Str(<<"5","0","0","0">>), 5000>>,
      <<Str(<<"1","0","0">>), 100>>, <<Str(<<"5","_","0","0","0">>), 5000>>,
      <<Str(<<"-","6","0","0","0">>), -6000>> }

IsInteger(v) == \E p \in IntegerStrings : p[1] = v

IntegerOf(v) == (CHOOSE p \in IntegerStrings : p[1] = v)[2]

\* Present, and not the text of an integer.
Unparseable(v) == ~v.isNone /\ ~IsInteger(v)

RiskNames == { <<"n","o","n","e">>, <<"l","o","w">>, <<"L","O","W">>,
               <<"m","e","d","i","u","m">>, <<"H","i","g","h">> }

AgeBad(v) == IsInteger(v) /\ (IntegerOf(v) <= 0 \/ IntegerOf(v) >= 65)

AmountBad(v) == IsInteger(v) /\ IntegerOf(v) < 5000

RiskBad(v) == ~v.isNone /\ v.str \notin RiskNames

\* The violated field of the reference verdict, in the order age, amount, risk.
ReferenceSlot(s) ==
    IF AgeBad(s["age"]) THEN "age"
    ELSE IF AmountBad(s["investmentAmount"]) THEN "investmentAmount"
    ELSE IF RiskBad(s["riskLevel"]) THEN "riskLevel"
    ELSE NoSlot

ReferenceMessage(k) ==
    IF k = "age" THEN AgeMessage
    ELSE IF k = "investmentAmount" THEN AmountMessage
    ELSE RiskMessage

ReferenceVerdict(s) ==
    IF ReferenceSlot(s) = NoSlot
    THEN [isValid |-> TRUE, violatedSlot |-> NoSlot]
    ELSE [isValid |-> FALSE,
          violatedSlot |-> ReferenceSlot(s),
          message |-> [contentType |-> "PlainText",
                       content |-> ReferenceMessage(ReferenceSlot(s))]]

\* The allocation table, on the lower-cased risk level.
Allocation(v) ==
    IF v.isNone THEN <<"Invalid Risk Level">>
    ELSE IF v.str \in { <<"n","o","n","e">> }
    THEN <<"100% bonds (AGG), 0% equities (SPY)">>
    ELSE IF v.str \in { <<"l","o","w">>, <<"L","O","W">> }
    THEN <<"60% bonds (AGG), 40% equities (SPY)">>
    ELSE IF v.str \in { <<"m","e","d","i","u","m">> }
    THEN <<"40% bonds (AGG), 60% equities (SPY)">>
    ELSE IF v.str \in { <<"H","i","g","h">> }
    THEN <<"20% bonds (AGG), 80% equities (SPY)">>
    ELSE <<"Invalid Risk Level">>

SlotRank(k) ==
    IF k = "age" THEN 1 ELSE IF k = "investmentAmount" THEN 2
    ELSE IF k = "riskLevel" THEN 3 ELSE 0

-----------------------------------------------------------------------------
(* Claims *)

\* C1: every call with the supported intent, in either phase and whatever the
\* four slots hold (a str or None), ends in one of the three responses
\* ElicitSlot, Delegate, Close, and never in an exception.
C1_NeverFaults ==
    (Responded /\ Supported /\ (Intermediate \/ Final))
        => Kind(response) \in {"ElicitSlot", "Delegate", "Close"}

\* C2: a present age that is not the text of an integer gets the verdict of an
\* out-of-range age, isValid = False on slot "age", whatever the other slots.
C2_UnparseableAgeFails ==
    (Validated /\ Unparseable(slots_before["age"]))
        => /\ ~validation_result.isValid
           /\ validation_result.violatedSlot = "age"

\* C3: with the age absent or valid, a present investment amount that is not
\* the text of an integer gets isValid = False on slot "investmentAmount",
\* and the intermediate phase never answers it with Delegate.
C3_UnparseableAmountFails ==
    (Validated /\ Unparseable(slots_before["investmentAmount"])
        /\ (slots_before["age"].isNone
            \/ (IsInteger(slots_before["age"]) /\ ~AgeBad(slots_before["age"]))))
        => /\ ~validation_result.isValid
           /\ validation_result.violatedSlot = "investmentAmount"
           /\ Kind(response) # "Delegate"

\* C4: when age and investment amount are each absent or the text of an
\* integer, the verdict of validate_data is the reference verdict: the first
\* failing field in the order age, investment amount, risk level, absent
\* fields skipped, and valid with no slot and no message when none fails.
C4_VerdictIsReference ==
    (Validated /\ ~Unparseable(slots_before["age"])
        /\ ~Unparseable(slots_before["investmentAmount"]))
        => validation_result = ReferenceVerdict(slots_before)

\* C4 witness: age and amount both out of range with an unknown risk level,
\* and only the age is reported.
C4_Witness ==
    /\ Validated
    /\ slots_before["age"] = Str(<<"6","5">>)
    /\ slots_before["investmentAmount"] = Str(<<"1","0","0">>)
    /\ slots_before["riskLevel"] = Str(<<"e","x","t","r","e","m","e">>)
    /\ validation_result.violatedSlot = "age"

\* C5: with the supported intent, Close is produced only in the final phase
\* and ElicitSlot or Delegate only in the intermediate phase, where the
\* response is ElicitSlot exactly when the verdict is invalid and Delegate
\* exactly when it is valid.
C5_VariantFollowsPhase ==
    (Responded /\ Supported)
        => /\ Kind(response) = "Close" => Final
           /\ Kind(response) \in {"ElicitSlot", "Delegate"} => Intermediate
           /\ Intermediate =>
                /\ Kind(response) = "ElicitSlot" <=> ~validation_result.isValid
                /\ Kind(response) = "Delegate" <=> validation_result.isValid

\* C5 witness: a Close in the final phase.
C5_Witness ==
    /\ Responded /\ Supported /\ Final
    /\ Kind(response) = "Close"

\* C6: the ElicitSlot response to an invalid verdict names the violated slot,
\* carries the verdict's message, and carries the request's slot mapping with
\* exactly the violated slot set to None and every other slot as it was.
C6_ElicitClearsOnlyViolated ==
    (Validated /\ ~validation_result.isValid)
        => /\ Kind(response) = "ElicitSlot"
           /\ response.dialogAction.slotToElicit = validation_result.violatedSlot
           /\ response.dialogAction.message = validation_result.message
           /\ response.dialogAction.slots = get_slots(intent_request)
           /\ \A k \in SlotNames :
                response.dialogAction.slots[k] =
                    IF k = validation_result.violatedSlot THEN None ELSE slots_before[k]

\* C6 witness: the age is elicited and cleared while the invalid amount and
\* the first name are returned as they were.
C6_Witness ==
    /\ Validated
    /\ Kind(response) = "ElicitSlot"
    /\ response.dialogAction.slotToElicit = "age"
    /\ slots_before["age"] = Str(<<"6","5">>)
    /\ response.dialogAction.slots["age"] = None
    /\ response.dialogAction.slots["investmentAmount"] = Str(<<"1","0","0">>)
    /\ response.dialogAction.slots["firstName"] = Str(<<"J","o">>)

\* C7: the three responses carry the request's sessionAttributes; a Delegate
\* carries the slot mapping the request had before the call, which the call
\* left unchanged; a Close leaves the request's slot mapping unchanged.
C7_RequestPassedThrough ==
    (Responded /\ Supported)
        => /\ Kind(response) \in {"ElicitSlot", "Delegate", "Close"}
                => response.sessionAttributes = intent_request.sessionAttributes
           /\ Kind(response) = "Delegate"
                => /\ response.dialogAction.slots = slots_before
                   /\ get_slots(intent_request) = slots_before
           /\ Kind(response) = "Close"
                => get_slots(intent_request) = slots_before

\* C7 witness: a Delegate that returns a fully filled slot mapping.
C7_Witness ==
    /\ Responded /\ Supported
    /\ Kind(response) = "Delegate"
    /\ \A k \in SlotNames : ~response.dialogAction.slots[k].isNone
    /\ response.sessionAttributes = [token |-> "s2"]

\* C8: in the final phase with the supported intent, for every risk level the
\* response is Close with fulfillmentState "Fulfilled" and the content
\* "Thank you, <firstName>, you should allocate your funds like so: <allocation>",
\* the allocation read case-insensitively from the table, anything else
\* giving "Invalid Risk Level".
C8_CloseCarriesAllocation ==
    (Responded /\ Supported /\ Final)
        => /\ Kind(response) = "Close"
           /\ response.dialogAction.fulfillmentState = "Fulfilled"
           /\ response.dialogAction.message.contentType = "PlainText"
           /\ response.dialogAction.message.content =
                <<"Thank you, ">> \o Format(slots_before["firstName"])
                    \o <<", you should allocate your funds like so: ">>
                    \o Allocation(slots_before["riskLevel"])

\* C9: with any other intent name, in either phase and whatever the slots,
\* dispatch raises the unsupported-intent exception: no response is produced,
\* the validator is not run and the request's slot mapping is unchanged.
C9_UnsupportedIntentRaises ==
    (Responded /\ ~Supported)
        => /\ Kind(response) = "Raised"
           /\ response.raised = "Exception"
           /\ response.args = <<"Intent with name ", intent_request.currentIntent.name,
                                " not supported">>
           /\ validation_result = NoVerdict
           /\ get_slots(intent_request) = slots_before

\* C9 witness: the intermediate phase with an out-of-range age and another
\* intent: the age is neither validated nor cleared.
C9_Witness ==
    /\ Responded /\ ~Supported /\ Intermediate
    /\ get_slots(intent_request)["age"] = Str(<<"6","5">>)
    /\ Kind(response) = "Raised"

\* C10: in a conversation in which the host feeds the slots of each elicit
\* response back unchanged, the slot just elicited is absent in (and so never
\* the violated slot of) the next verdict, the elicited slots follow the
\* order age, investmentAmount, riskLevel without repetition, and a Delegate
\* is reached after at most three ElicitSlot responses: every
\* intermediate-phase call answers ElicitSlot or Delegate, an ElicitSlot can
\* always be fed back, and there is never a fourth one.
C10_DelegateWithinThreeElicits ==
    /\ \A i, j \in 1..Len(elicited) :
            i < j => SlotRank(elicited[i]) < SlotRank(elicited[j])
    /\ \A i \in 1..Len(elicited) : SlotRank(elicited[i]) \in 1..3
    /\ Len(elicited) <= 3
    /\ (pc = "request" /\ elicited # <<>>)
            => get_slots(intent_request)[elicited[Len(elicited)]] = None
    /\ Validated => Kind(response) \in {"ElicitSlot", "Delegate"}
    /\ (Validated /\ Kind(response) = "ElicitSlot")
            => /\ ENABLED FeedBack
               /\ turns < 3
               /\ Len(elicited) = turns + 1
               /\ elicited[Len(elicited)] = validation_result.violatedSlot
    /\ (Validated /\ Kind(response) = "Delegate") => Len(elicited) = turns

\* The liveness reading of C10, under FairSpec: every intermediate-phase
\* event of the supported intent leads to a Delegate.
C10_EventuallyDelegates ==
    (pc = "request" /\ Supported /\ Intermediate)
        ~> (Kind(response) = "Delegate" /\ Len(elicited) <= 3)

\* C10 witness: three elicits, age, investmentAmount, riskLevel, then Delegate.
C10_Witness ==
    /\ Validated
    /\ Kind(response) = "Delegate"
    /\ elicited = <<"age", "investmentAmount", "riskLevel">>

====
